---- MODULE Spec2Model ----
(***************************************************************************)
(* Model of printing/converter.py: the converter classes, the registry    *)
(* built at import time, the resolver get_converter_chain and the          *)
(* orchestrator auto_convert.                                              *)
(*                                                                         *)
(* Content types, converter names and file paths are strings.  Every      *)
(* call of auto_convert has its own locals (input_type, out_types, queue,  *)
(* reverse, pipeline, file, ...): they are functions of the call's id.     *)
(* The registry (CONVERTERS_ALL, CONVERTERS) and the file system (fs) are  *)
(* shared by all calls.                                                    *)
(***************************************************************************)
EXTENDS Naturals, Sequences, FiniteSets, TLC

VARIABLES
    CONVERTERS_ALL,  \* converter.py:97   the known converter classes, in declaration order
    available,       \* names of the classes whose is_available() is true on this host
    CONVERTERS,      \* converter.py:98   names of the available classes, in declaration order
    fs,              \* the file system: path -> content type of the file at that path
    callers,         \* ids of the calls of auto_convert the calling layer makes
    requestable,     \* the content types the calling layer asks for in out_types
    work_dirs,       \* the working directories the calling layer hands out
    earlier,         \* the first resolution the process completed, and its outcome
    pc,              \* position of each call in auto_convert / get_converter_chain
    input_file,      \* auto_convert's argument input_file
    work_dir,        \* auto_convert's argument work_dir
    out_types,       \* converter.py:142  set(out_types)
    input_type,      \* converter.py:144  the detected content type
    queue,           \* converter.py:115  bfs()'s deque
    enqueued,        \* every type the call has put on the queue so far, in order
    reverse,         \* converter.py:109  type -> <<predecessor type, converter>>
    v,               \* converter.py:117 and 132  the current type
    conv_iter,       \* converter.py:118  what is left of `for conv in converters_for_type[v]`
    pipeline,        \* converter.py:131  the deque of converters, then the returned list
    file,            \* converter.py:148  the path fed to the next stage
    stage,           \* converter.py:149  number of stages of the pipeline already run
    invoked,         \* log of the sandbox invocations of the call, in order
    result           \* how the call ended: a returned value or a raised error

vars == <<CONVERTERS_ALL, available, CONVERTERS, fs, callers, requestable,
          work_dirs, earlier, pc, input_file,
          work_dir, out_types, input_type, queue, enqueued, reverse, v, conv_iter,
          pipeline, file, stage, invoked, result>>

\* what no step of a call changes
registry == <<CONVERTERS_ALL, available, CONVERTERS, callers, requestable, work_dirs>>

(***************************************************************************)
(* Bounds                                                                  *)
(***************************************************************************)
\* longest list a caller passes as out_types
MaxAccepted == 2

(***************************************************************************)
(* The converter classes                                                   *)
(***************************************************************************)
Range(s) == {s[i] : i \in DOMAIN s}

ImageConverter ==
    [name |-> "ImageConverter",
     supported_types |-> <<"image/png", "image/jpeg">>,
     output_type |-> "application/pdf",
     out |-> "out.pdf"]

\* PDFConverter declared to read images as well
PDFConverterOfImages ==
    [name |-> "PDFConverter",
     supported_types |-> <<"application/pdf", "image/png", "image/jpeg">>,
     output_type |-> "gutenberg/pdf",
     out |-> "final.pdf"]

\* PDFConverter writing to the file name of the converters before it
PDFConverterOverwriting ==
    [name |-> "PDFConverter",
     supported_types |-> <<"application/pdf">>,
     output_type |-> "gutenberg/pdf",
     out |-> "out.pdf"]

PDFConverter ==
    [name |-> "PDFConverter",
     supported_types |-> <<"application/pdf">>,
     output_type |-> "gutenberg/pdf",
     out |-> "final.pdf"]

DocConverter ==
    [name |-> "DocConverter",
     supported_types |-> <<"application/msword",
                           "application/vnd.openxmlformats-officedocument.wordprocessing",
                           "application/rtf",
                           "application/vnd.oasis.opendocument.text">>,
     output_type |-> "application/pdf",
     out |-> "out.pdf"]

KnownConverters == <<ImageConverter, DocConverter, PDFConverter>>

\* A class declaration: a Converter subclass with the three class attributes
\* and the file name its convert() writes.
Decl(n, ins, o) ==
    [name |-> n, supported_types |-> ins, output_type |-> o, out |-> n \o ".out"]

\* Other capability graphs get_converter_chain can be given: a diamond with a
\* short and a long way to "z", a way back to "t" and a self loop ...
GraphDiamond ==
    << Decl("c1", <<"t">>, "a"),
       Decl("c2", <<"t">>, "b"),
       Decl("c3", <<"a", "c">>, "z"),
       Decl("c4", <<"b">>, "c"),
       Decl("c5", <<"z", "c">>, "t"),
       Decl("c6", <<"a", "b">>, "a") >>

\* ... and one where several converters of a type produce the same type.
GraphTies ==
    << Decl("d1", <<"t">>, "a"),
       Decl("d2", <<"t", "b">>, "a"),
       Decl("d3", <<"a">>, "b"),
       Decl("d4", <<"a">>, "z"),
       Decl("d5", <<"b", "z">>, "z") >>

Names(all) == {all[i].name : i \in DOMAIN all}

\* The class of the given name.
Class(c) == CHOOSE k \in Range(CONVERTERS_ALL) : k.name = c

\* The content types a registry names, and one that no converter knows.
TypesOf(all) ==
    UNION {Range(all[i].supported_types) \cup {all[i].output_type} : i \in DOMAIN all}
      \cup {"text/unknown"}

(***************************************************************************)
(* The registry, converter.py:97-98                                        *)
(***************************************************************************)
RECURSIVE Filter(_, _)
Filter(all, avail) ==
    IF all = <<>> THEN <<>>
    ELSE (IF Head(all).name \in avail THEN <<Head(all).name>> ELSE <<>>)
           \o Filter(Tail(all), avail)

\* the registry without the availability filter
AllConverters(all, avail) == Filter(all, Names(all))

\* [conv for conv in CONVERTERS_ALL if conv.is_available()]
AvailableConverters(all, avail) == Filter(all, avail)

(***************************************************************************)
(* get_converter_chain, converter.py:107-136                               *)
(***************************************************************************)
RECURSIVE ConvertersAccepting(_, _)
ConvertersAccepting(convs, mime) ==
    IF convs = <<>> THEN <<>>
    ELSE (IF mime \in Range(Class(Head(convs)).supported_types)
            THEN <<Head(convs)>> ELSE <<>>)
           \o ConvertersAccepting(Tail(convs), mime)

\* the per-type list built by putting each converter in front (insert(0, conv))
ConvertersPrepended(mime) ==
    LET l == ConvertersAccepting(CONVERTERS, mime)
    IN  [i \in 1..Len(l) |-> l[Len(l) + 1 - i]]

\* converters_for_type[mime] once the loop of lines 110-112 has run: the
\* available converters accepting mime, in the order of CONVERTERS.
converters_for_type(mime) == ConvertersAccepting(CONVERTERS, mime)

\* queue.pop(): a deque's pop takes the item at the right end.
\* v = queue[-1]: the last item is read and left in the queue
PopKeep(q) == [item |-> q[Len(q)], rest |-> q]

Pop(q) == [item |-> q[Len(q)], rest |-> SubSeq(q, 1, Len(q) - 1)]

\* a reached type that is never put on the queue
EnqueueDropped(q, u) == q

\* queue.append(u)
Enqueue(q, u) == Append(q, u)

\* a traversal that always runs until the queue is empty
NeverEarlyReturn(u, outs) == FALSE

\* `if u in output_types: return`
EarlyReturn(u, outs) == u \in outs

\* every reached type taken for an acceptable one
ReachedTypes(outs, rev) == DOMAIN rev

\* output_types & reverse.keys()
Intersection(outs, rev) == outs \cap DOMAIN rev

\* the walk's converters collected in the order of the walk
AppendRight(p, conv) == Append(p, conv)

\* pipeline.appendleft(conv)
AppendLeft(p, conv) == <<conv>> \o p

(***************************************************************************)
(* auto_convert, converter.py:139-152                                      *)
(***************************************************************************)
AllCalls == {"r1", "r2"}

\* every converter writing into one fixed directory
JoinFixed(dir, name) == "/tmp/w1" \o "/" \o name

\* os.path.join(self.work_dir, 'out.pdf')
Join(dir, name) == dir \o "/" \o name

\* lines 140-142: a str becomes a one-element list, and the list a set
OutTypesOfStr(t) == {t}

OutTypesOfList(l) == Range(l)

Lists(S, n) == UNION {[1..k -> S] : k \in 0..n}

None == [kind |-> "none", value |-> ""]

Returned(val) == [kind |-> "return", value |-> val]

Raised(err) == [kind |-> err, value |-> ""]

\* lines 145-146: what auto_convert returns when the type is acceptable
ShortCircuit(r) == Returned(input_type[r])

\* The out_types arguments a caller passes: one type, or a list of types.
OutTypesArgs ==
    {OutTypesOfStr(t) : t \in requestable}
      \cup {OutTypesOfList(l) : l \in Lists(requestable, MaxAccepted)}

\* lines 139-147 and 108-115: entry, detection, the short circuit, and the
\* start of get_converter_chain.
AutoConvert(r) ==
    /\ r \in callers
    /\ pc[r] = "idle"
    /\ \E f \in DOMAIN fs, wd \in work_dirs, outs \in OutTypesArgs :
         /\ input_file' = [input_file EXCEPT ![r] = f]
         /\ work_dir' = [work_dir EXCEPT ![r] = wd]
         /\ out_types' = [out_types EXCEPT ![r] = outs]
         /\ input_type' = [input_type EXCEPT ![r] = fs[f]]
         /\ IF fs[f] \in outs
              THEN /\ result' = [result EXCEPT ![r] = ShortCircuit(r)']
                   /\ pc' = [pc EXCEPT ![r] = "done"]
                   /\ UNCHANGED <<queue, enqueued, reverse>>
              ELSE /\ queue' = [queue EXCEPT ![r] = <<fs[f]>>]
                   /\ enqueued' = [enqueued EXCEPT ![r] = <<fs[f]>>]
                   /\ reverse' = [reverse EXCEPT ![r] = <<>>]
                   /\ pc' = [pc EXCEPT ![r] = "bfs"]
                   /\ UNCHANGED result
    /\ UNCHANGED <<registry, fs, earlier, v, conv_iter, pipeline, file, stage, invoked>>

\* lines 116-118: v = queue.pop() and the start of the for loop
BfsPop(r) ==
    /\ pc[r] = "bfs"
    /\ queue[r] # <<>>
    /\ v' = [v EXCEPT ![r] = Pop(queue[r]).item]
    /\ queue' = [queue EXCEPT ![r] = Pop(queue[r]).rest]
    /\ conv_iter' = [conv_iter EXCEPT ![r] = converters_for_type(Pop(queue[r]).item)]
    /\ pc' = [pc EXCEPT ![r] = "for"]
    /\ UNCHANGED <<registry, earlier, enqueued, fs, input_file, work_dir, out_types, input_type,
                   reverse, pipeline, file, stage, invoked, result>>

\* line 116: the queue is empty, bfs() returns
BfsEnd(r) ==
    /\ pc[r] = "bfs"
    /\ queue[r] = <<>>
    /\ pc' = [pc EXCEPT ![r] = "intersect"]
    /\ UNCHANGED <<registry, earlier, enqueued, fs, input_file, work_dir, out_types, input_type, queue,
                   reverse, v, conv_iter, pipeline, file, stage, invoked, result>>

\* lines 118-124: one iteration of the for loop
ForNext(r) ==
    /\ pc[r] = "for"
    /\ conv_iter[r] # <<>>
    /\ LET conv == Head(conv_iter[r])
           u == Class(conv).output_type
       IN  /\ IF u \notin DOMAIN reverse[r]
                THEN /\ reverse' = [reverse EXCEPT ![r] = (u :> <<v[r], conv>>) @@ @]
                     /\ queue' = [queue EXCEPT ![r] = Enqueue(@, u)]
                     /\ enqueued' = [enqueued EXCEPT ![r] = Enqueue(@, u)]
                ELSE UNCHANGED <<reverse, queue, enqueued>>
           /\ IF EarlyReturn(u, out_types[r])
                THEN /\ pc' = [pc EXCEPT ![r] = "intersect"]
                     /\ UNCHANGED conv_iter
                ELSE /\ conv_iter' = [conv_iter EXCEPT ![r] = Tail(@)]
                     /\ UNCHANGED pc
    /\ UNCHANGED <<registry, earlier, fs, input_file, work_dir, out_types, input_type,
                   v, pipeline, file, stage, invoked, result>>

\* line 118: the for loop is over, back to the while
ForEnd(r) ==
    /\ pc[r] = "for"
    /\ conv_iter[r] = <<>>
    /\ pc' = [pc EXCEPT ![r] = "bfs"]
    /\ UNCHANGED <<registry, earlier, enqueued, fs, input_file, work_dir, out_types, input_type, queue,
                   reverse, v, conv_iter, pipeline, file, stage, invoked, result>>

\* lines 127-132: raise, or start the walk at next(iter(intersect)); the
\* iteration order of a set is not fixed, so any member may come first.
Intersect(r) ==
    /\ pc[r] = "intersect"
    /\ LET intersect == Intersection(out_types[r], reverse[r])
       IN  IF intersect = {}
             THEN /\ result' = [result EXCEPT ![r] = Raised("NoConverterAvailableError")]
                  /\ pc' = [pc EXCEPT ![r] = "done"]
                  /\ UNCHANGED v
             ELSE /\ \E x \in intersect : v' = [v EXCEPT ![r] = x]
                  /\ pc' = [pc EXCEPT ![r] = "walk"]
                  /\ UNCHANGED result
    /\ pipeline' = [pipeline EXCEPT ![r] = <<>>]
    /\ UNCHANGED <<registry, earlier, enqueued, fs, input_file, work_dir, out_types, input_type, queue,
                   reverse, conv_iter, file, stage, invoked>>

\* the walk going on as long as the current type has a predecessor link
WalkToRoot(curr, T, rev) == curr \notin DOMAIN rev

\* line 133: while curr != input_type
WalkDone(curr, T, rev) == curr = T

\* lines 133-135: one step back along the predecessor links
Walk(r) ==
    /\ pc[r] = "walk"
    /\ ~WalkDone(v[r], input_type[r], reverse[r])
    /\ v' = [v EXCEPT ![r] = reverse[r][v[r]][1]]
    /\ pipeline' = [pipeline EXCEPT ![r] = AppendLeft(@, reverse[r][v[r]][2])]
    /\ UNCHANGED <<registry, earlier, enqueued, fs, pc, input_file, work_dir, out_types, input_type,
                   queue, reverse, conv_iter, file, stage, invoked, result>>

\* lines 133, 136, 147-148: the walk has reached input_type; the pipeline is
\* returned to auto_convert, which sets file = input_file
WalkEnd(r) ==
    /\ pc[r] = "walk"
    /\ WalkDone(v[r], input_type[r], reverse[r])
    /\ file' = [file EXCEPT ![r] = input_file[r]]
    /\ pc' = [pc EXCEPT ![r] = "exec"]
    /\ UNCHANGED <<registry, earlier, enqueued, fs, input_file, work_dir, out_types, input_type, queue,
                   reverse, v, conv_iter, pipeline, stage, invoked, result>>

\* line 33: os.path.join(BASE_DIR, 'sandbox.sh')
SANDBOX_PATH == "/srv/gutenberg/src/sandbox.sh"

\* lines 49-52
CONVERT_OPTIONS ==
    <<"-resize", "2365x3335", "-gravity", "center", "-background", "white",
      "-extent", "2490x3510", "-units", "PixelsPerInch", "-density", "300x300">>

\* lines 19-20: conv_class(work_dir) keeps the directory it is given
Instance(conv, dir) == [class |-> conv, work_dir |-> dir]

\* The command each convert() builds (lines 56, 71-73, 89); a class of
\* another registry runs a tool of its own name on the two paths.
Command(conv, input, out) ==
    CASE conv = "ImageConverter" -> <<"convert", input>> \o CONVERT_OPTIONS \o <<out>>
      [] conv = "PDFConverter" ->
           <<"gs", "-sDEVICE=pdfwrite", "-dNOPAUSE", "-dBATCH", "-dSAFER",
             "-dCompatibilityLevel=1.4", "-sOutputFile=" \o out, input>>
      [] conv = "DocConverter" -> <<"unoconv", "-o", out, input>>
      [] OTHER -> <<conv, input, out>>

\* the command handed to check_call as it is
RunDirectly(self, command) == command

\* lines 35-37: the argument list run_in_sandbox gives to check_call
RunInSandbox(self, command) == <<SANDBOX_PATH, self.work_dir>> \o command

\* every stage run on the original input file
InvocationOnInputFile(r, ok) ==
    LET self == Instance(pipeline[r][stage[r] + 1], work_dir[r])
        out == Join(self.work_dir, Class(self.class).out)
    IN  [conv |-> self.class, input |-> input_file[r], work_dir |-> self.work_dir,
         argv |-> RunInSandbox(self, Command(self.class, input_file[r], out)),
         output |-> out, ok |-> ok]

\* The sandbox invocation a stage makes: conv_class(work_dir).convert(file).
Invocation(r, ok) ==
    LET self == Instance(pipeline[r][stage[r] + 1], work_dir[r])
        out == Join(self.work_dir, Class(self.class).out)
    IN  [conv |-> self.class, input |-> file[r], work_dir |-> self.work_dir,
         argv |-> RunInSandbox(self, Command(self.class, file[r], out)),
         output |-> out, ok |-> ok]

\* lines 149-151 with convert() of lines 54-57, 69-74, 87-90: the tool exits
\* with 0, its output file is in work_dir and convert() returns its path
ConvertOk(r) ==
    /\ pc[r] = "exec"
    /\ stage[r] < Len(pipeline[r])
    /\ LET call == Invocation(r, TRUE)
       IN  /\ invoked' = [invoked EXCEPT ![r] = Append(@, call)]
           /\ fs' = (call.output :> Class(call.conv).output_type) @@ fs
           /\ file' = [file EXCEPT ![r] = call.output]
    /\ stage' = [stage EXCEPT ![r] = @ + 1]
    /\ UNCHANGED <<registry, earlier, enqueued, pc, input_file, work_dir, out_types, input_type, queue,
                   reverse, v, conv_iter, pipeline, result>>

\* a failure of the tool that is caught, the loop going on with the next stage
ConvertFailSwallowed(r) ==
    /\ pc[r] = "exec"
    /\ stage[r] < Len(pipeline[r])
    /\ invoked' = [invoked EXCEPT ![r] = Append(@, Invocation(r, FALSE))]
    /\ stage' = [stage EXCEPT ![r] = @ + 1]
    /\ UNCHANGED <<registry, earlier, enqueued, fs, pc, input_file, work_dir, out_types, input_type,
                   queue, reverse, v, conv_iter, pipeline, file, result>>

\* lines 36-37: check_call raises CalledProcessError when the tool exits with
\* a non-zero status (it may have written its output file before) and OSError
\* when the sandbox cannot be launched; neither is caught in auto_convert
ConvertFail(r) ==
    /\ pc[r] = "exec"
    /\ stage[r] < Len(pipeline[r])
    /\ LET call == Invocation(r, FALSE)
       IN  /\ invoked' = [invoked EXCEPT ![r] = Append(@, call)]
           /\ \/ /\ result' = [result EXCEPT ![r] = Raised("OSError")]
                 /\ UNCHANGED fs
              \/ /\ result' = [result EXCEPT ![r] = Raised("CalledProcessError")]
                 /\ \/ UNCHANGED fs
                    \/ fs' = (call.output :> Class(call.conv).output_type) @@ fs
    /\ pc' = [pc EXCEPT ![r] = "done"]
    /\ UNCHANGED <<registry, earlier, enqueued, input_file, work_dir, out_types, input_type, queue,
                   reverse, v, conv_iter, pipeline, file, stage>>

\* line 152: return file
Return(r) ==
    /\ pc[r] = "exec"
    /\ stage[r] = Len(pipeline[r])
    /\ result' = [result EXCEPT ![r] = Returned(file[r])]
    /\ pc' = [pc EXCEPT ![r] = "done"]
    /\ UNCHANGED <<registry, earlier, enqueued, fs, input_file, work_dir, out_types, input_type, queue,
                   reverse, v, conv_iter, pipeline, file, stage, invoked>>

\* get_converter_chain has been called: the type was not acceptable as it is.
Resolving(r) == pc[r] # "idle" /\ input_type[r] \notin out_types[r]

\* get_converter_chain has returned pipeline[r] to auto_convert.
Resolved(r) ==
    /\ Resolving(r)
    /\ \/ pc[r] = "exec"
       \/ pc[r] = "done" /\ result[r].kind # "NoConverterAvailableError"

\* What get_converter_chain gave a finished call: a pipeline or the error.
Outcome(r) ==
    [input_type |-> input_type[r],
     out_types |-> out_types[r],
     kind |-> IF Resolved(r) THEN "pipeline" ELSE "NoConverterAvailableError",
     pipeline |-> pipeline[r]]

NoOutcome == [input_type |-> "", out_types |-> {}, kind |-> "none", pipeline |-> <<>>]

\* The call is over: its frame and locals are gone, and the caller may call
\* auto_convert again, on any file that is on disk by now.
NewCall(r) ==
    /\ pc[r] = "done"
    /\ earlier' = IF earlier = NoOutcome /\ Resolving(r) THEN Outcome(r) ELSE earlier
    /\ pc' = [pc EXCEPT ![r] = "idle"]
    /\ input_file' = [input_file EXCEPT ![r] = ""]
    /\ work_dir' = [work_dir EXCEPT ![r] = ""]
    /\ out_types' = [out_types EXCEPT ![r] = {}]
    /\ input_type' = [input_type EXCEPT ![r] = ""]
    /\ queue' = [queue EXCEPT ![r] = <<>>]
    /\ enqueued' = [enqueued EXCEPT ![r] = <<>>]
    /\ reverse' = [reverse EXCEPT ![r] = <<>>]
    /\ v' = [v EXCEPT ![r] = ""]
    /\ conv_iter' = [conv_iter EXCEPT ![r] = <<>>]
    /\ pipeline' = [pipeline EXCEPT ![r] = <<>>]
    /\ file' = [file EXCEPT ![r] = ""]
    /\ stage' = [stage EXCEPT ![r] = 0]
    /\ invoked' = [invoked EXCEPT ![r] = <<>>]
    /\ result' = [result EXCEPT ![r] = None]
    /\ UNCHANGED <<registry, fs>>

(***************************************************************************)
(* Specifications                                                          *)
(***************************************************************************)
\* The state after import: the registry is built from the host's binaries,
\* one uploaded file of some content type is on disk, no call has started.
InitWith(graphs, ids, dirs) ==
    /\ CONVERTERS_ALL \in graphs
    /\ available \in SUBSET Names(CONVERTERS_ALL)
    /\ CONVERTERS = AvailableConverters(CONVERTERS_ALL, available)
    /\ \E t \in TypesOf(CONVERTERS_ALL) : fs = ("/upload/in" :> t)
    /\ callers = ids
    /\ work_dirs = dirs
    /\ earlier = NoOutcome
    /\ pc = [r \in AllCalls |-> "idle"]
    /\ input_file = [r \in AllCalls |-> ""]
    /\ work_dir = [r \in AllCalls |-> ""]
    /\ out_types = [r \in AllCalls |-> {}]
    /\ input_type = [r \in AllCalls |-> ""]
    /\ queue = [r \in AllCalls |-> <<>>]
    /\ enqueued = [r \in AllCalls |-> <<>>]
    /\ reverse = [r \in AllCalls |-> <<>>]
    /\ v = [r \in AllCalls |-> ""]
    /\ conv_iter = [r \in AllCalls |-> <<>>]
    /\ pipeline = [r \in AllCalls |-> <<>>]
    /\ file = [r \in AllCalls |-> ""]
    /\ stage = [r \in AllCalls |-> 0]
    /\ invoked = [r \in AllCalls |-> <<>>]
    /\ result = [r \in AllCalls |-> None]

\* The output types of a registry: what a caller that knows it asks for.
OutputTypesOf(all) == {all[i].output_type : i \in DOMAIN all}

Init ==
    /\ InitWith({KnownConverters}, {"r1"}, {"/tmp/w1", "/tmp/w2"})
    /\ requestable = TypesOf(CONVERTERS_ALL)

InitGraph ==
    /\ InitWith({KnownConverters, GraphDiamond, GraphTies}, {"r1"}, {"/tmp/w1", "/tmp/w2"})
    /\ requestable = TypesOf(CONVERTERS_ALL)

InitCalls ==
    /\ InitWith({KnownConverters, GraphDiamond, GraphTies}, {"r1"}, {"/tmp/w1"})
    /\ available = Names(CONVERTERS_ALL)
    /\ requestable = OutputTypesOf(CONVERTERS_ALL)

\* Two requests at once, each with a work_dir of its choice, over the known
\* converters, all of them installed.
InitConc ==
    /\ InitWith({KnownConverters}, {"r1", "r2"}, {"/tmp/w1", "/tmp/w2"})
    /\ available = Names(CONVERTERS_ALL)
    /\ requestable = OutputTypesOf(CONVERTERS_ALL)

Next ==
    \E r \in AllCalls :
        \/ AutoConvert(r)
        \/ BfsPop(r)
        \/ BfsEnd(r)
        \/ ForNext(r)
        \/ ForEnd(r)
        \/ Intersect(r)
        \/ Walk(r)
        \/ WalkEnd(r)
        \/ ConvertOk(r)
        \/ ConvertFail(r)
        \/ Return(r)

\* One call of auto_convert in the repository's own registry.
Spec == Init /\ [][Next]_vars

\* One call of auto_convert in any of the capability graphs.
SpecGraph == InitGraph /\ [][Next]_vars

\* get_converter_chain and auto_convert are straight-line sequential code: a
\* call that can take its next step takes it.
SpecGraphLive == InitGraph /\ [][Next]_vars /\ WF_vars(Next)

\* The steps of the two requests interleave in any order.
SpecConc == InitConc /\ [][Next]_vars

NextCalls == Next \/ \E r \in AllCalls : NewCall(r)

\* Calls of auto_convert one after the other, in any of the capability graphs.
SpecCalls == InitCalls /\ [][NextCalls]_vars

(***************************************************************************)
(* What the claims speak of                                                *)
(***************************************************************************)
\* The types one stage away from a type of X, over the available converters.
Successors(X) ==
    {Class(c).output_type :
        c \in {d \in Range(CONVERTERS) : Range(Class(d).supported_types) \cap X # {}}}

\* The types that chains of exactly k available converters lead to from T.
RECURSIVE Layer(_, _)
Layer(T, k) == IF k = 0 THEN {T} ELSE Successors(Layer(T, k - 1))

StageCounts == 1..Cardinality(TypesOf(CONVERTERS_ALL))

\* Some chain of one or more available converters leads from T to a member of S.
ChainExists(T, S) == \E k \in StageCounts : Layer(T, k) \cap S # {}

\* The least number of stages of such a chain.
MinStages(T, S) ==
    CHOOSE k \in StageCounts :
        /\ Layer(T, k) \cap S # {}
        /\ \A j \in 1..(k - 1) : Layer(T, j) \cap S = {}

Accepts(c, t) == t \in Range(Class(c).supported_types)

\* [c1..cn] is a chain from T to a member of S.
WellFormed(p, T, S) ==
    /\ p # <<>>
    /\ Accepts(p[1], T)
    /\ \A i \in 1..(Len(p) - 1) : Accepts(p[i + 1], Class(p[i]).output_type)
    /\ Class(p[Len(p)]).output_type \in S

(***************************************************************************)
(* Claims                                                                  *)
(***************************************************************************)
\* C1: when the detected type is in the accepted set, auto_convert returns
\* the path input_file itself and no converter has been invoked.
C1_ShortCircuitReturnsInputFile ==
    \A r \in AllCalls :
        (pc[r] = "done" /\ input_type[r] \in out_types[r])
            => result[r] = Returned(input_file[r]) /\ invoked[r] = <<>>

\* C2: a pipeline that get_converter_chain returns has no more stages than
\* the shortest chain of available converters from T to a member of S.
C2_PipelineMinimal ==
    \A r \in AllCalls :
        Resolved(r) => Len(pipeline[r]) <= MinStages(input_type[r], out_types[r])

\* C3: when no chain of available converters leads from T to a member of S,
\* get_converter_chain never starts a pipeline, the call ends with
\* NoConverterAvailableError and no converter is ever invoked.
C3_NoChainRaises ==
    \A r \in AllCalls :
        (Resolving(r) /\ ~ChainExists(input_type[r], out_types[r]))
            => /\ pc[r] \in {"bfs", "for", "intersect", "done"}
               /\ pipeline[r] = <<>>
               /\ invoked[r] = <<>>
               /\ pc[r] = "done" => result[r] = Raised("NoConverterAvailableError")

\* a call that has traversed part of the graph and found no chain
C3_Witness ==
    \E r \in AllCalls :
        /\ pc[r] = "done"
        /\ result[r] = Raised("NoConverterAvailableError")
        /\ ~ChainExists(input_type[r], out_types[r])
        /\ DOMAIN reverse[r] # {}

\* C4: when some chain of available converters leads from T to a member of
\* S, the traversal ends with a reached acceptable type and the call does
\* not end with NoConverterAvailableError: a pipeline is returned.
C4_ChainExistsResolves ==
    \A r \in AllCalls :
        (Resolving(r) /\ ChainExists(input_type[r], out_types[r]))
            => /\ pc[r] = "intersect" => Intersection(out_types[r], reverse[r]) # {}
               /\ pc[r] = "done" => /\ result[r].kind # "NoConverterAvailableError"
                                    /\ pipeline[r] # <<>>

\* a call whose only chains have two stages or more, with its pipeline
C4_Witness ==
    \E r \in AllCalls :
        /\ pc[r] = "exec"
        /\ MinStages(input_type[r], out_types[r]) >= 2
        /\ pipeline[r] # <<>>

\* C5: a returned pipeline is a chain from T to a member of S, and the file
\* auto_convert returns after running it has the last stage's declared
\* type, a member of S.
C5_PipelineWellFormed ==
    \A r \in AllCalls :
        Resolved(r)
            => /\ WellFormed(pipeline[r], input_type[r], out_types[r])
               /\ result[r].kind = "return"
                    => /\ result[r].value \in DOMAIN fs
                       /\ fs[result[r].value] \in out_types[r]
                       /\ fs[result[r].value]
                            = Class(pipeline[r][Len(pipeline[r])]).output_type

\* a call that ran a pipeline of two stages or more and returned its file
C5_Witness ==
    \E r \in AllCalls :
        /\ pc[r] = "done"
        /\ result[r].kind = "return"
        /\ Len(pipeline[r]) >= 2

\* C6: with the registry unchanged, a resolution of the same (T, S) as an
\* earlier one of the process, whatever was resolved in between and
\* whichever member of the intersection the set's iteration yields first,
\* gives the same outcome: the same sequence of converters, or the error.
C6_SameRequestSameOutcome ==
    \A r \in AllCalls :
        ( /\ Resolving(r)
          /\ pc[r] \in {"exec", "done"}
          /\ earlier # NoOutcome
          /\ input_type[r] = earlier.input_type
          /\ out_types[r] = earlier.out_types )
            => Outcome(r) = earlier

\* a later call has resolved the (T, S) of the first one to two stages or more
C6_Witness ==
    \E r \in AllCalls :
        /\ pc[r] = "exec"
        /\ earlier.kind = "pipeline"
        /\ input_type[r] = earlier.input_type
        /\ out_types[r] = earlier.out_types
        /\ Len(pipeline[r]) >= 2

\* The converters a call has recorded, collected or run.
Used(r) ==
    Range(pipeline[r])
      \cup {reverse[r][t][2] : t \in DOMAIN reverse[r]}
      \cup {invoked[r][i].conv : i \in DOMAIN invoked[r]}

\* C7: a converter whose is_available() was false when the registry was
\* built is in no pipeline, is recorded for no type and is never run.
C7_UnavailableNeverUsed == \A r \in AllCalls : Used(r) \subseteq available

\* a call that failed although an unavailable converter leads from T into S
C7_Witness ==
    \E r \in AllCalls :
        /\ pc[r] = "done"
        /\ result[r] = Raised("NoConverterAvailableError")
        /\ \E c \in Names(CONVERTERS_ALL) \ available :
              /\ Accepts(c, input_type[r])
              /\ Class(c).output_type \in out_types[r]

\* C8: with ImageConverter and PDFConverter available and an image as the
\* input, the resolver returns [ImageConverter] when application/pdf is
\* accepted and gutenberg/pdf is not, [ImageConverter, PDFConverter] when
\* only gutenberg/pdf is accepted, and PDFConverter is in the pipeline only
\* if gutenberg/pdf is accepted.
C8_ImageScenario ==
    \A r \in AllCalls :
        ( /\ {"ImageConverter", "PDFConverter"} \subseteq available
          /\ input_type[r] \in {"image/jpeg", "image/png"}
          /\ Resolving(r) )
            => /\ ( /\ pc[r] \in {"exec", "done"}
                    /\ "application/pdf" \in out_types[r]
                    /\ "gutenberg/pdf" \notin out_types[r] )
                     => Resolved(r) /\ pipeline[r] = <<"ImageConverter">>
               /\ (pc[r] \in {"exec", "done"} /\ out_types[r] = {"gutenberg/pdf"})
                     => Resolved(r) /\ pipeline[r] = <<"ImageConverter", "PDFConverter">>
               /\ "PDFConverter" \in Range(pipeline[r])
                     => "gutenberg/pdf" \in out_types[r]

\* the two-stage pipeline of an image when only gutenberg/pdf is accepted
C8_Witness ==
    \E r \in AllCalls :
        /\ pc[r] = "exec"
        /\ input_type[r] = "image/jpeg"
        /\ out_types[r] = {"gutenberg/pdf"}
        /\ pipeline[r] = <<"ImageConverter", "PDFConverter">>

\* C9: the stages are run in pipeline order, the first on input_file, each
\* later one on the path the one before returned, and when none fails each
\* converter of the pipeline has been run exactly once and auto_convert
\* returns the path the last one returned.
C9_StagesInOrder ==
    \A r \in AllCalls :
        /\ Len(invoked[r]) <= Len(pipeline[r])
        /\ \A i \in DOMAIN invoked[r] :
              /\ invoked[r][i].conv = pipeline[r][i]
              /\ invoked[r][i].input
                   = IF i = 1 THEN input_file[r] ELSE invoked[r][i - 1].output
        /\ (Resolved(r) /\ result[r].kind = "return")
              => /\ Len(invoked[r]) = Len(pipeline[r])
                 /\ \A i \in DOMAIN invoked[r] : invoked[r][i].ok
                 /\ result[r].value = invoked[r][Len(invoked[r])].output

\* a finished call whose second stage ran on the output of the first
C9_Witness ==
    \E r \in AllCalls :
        /\ pc[r] = "done"
        /\ result[r].kind = "return"
        /\ Len(invoked[r]) >= 2
        /\ invoked[r][2].input = invoked[r][1].output

Failures == {"CalledProcessError", "OSError"}

\* C10: a failed invocation is the last one of its call: the call is over,
\* it has ended with the tool's error, no path is returned, and neither the
\* failed stage nor any later stage is run after it.
C10_FailureAborts ==
    \A r \in AllCalls :
        \A i \in DOMAIN invoked[r] :
            ~invoked[r][i].ok
                => /\ i = Len(invoked[r])
                   /\ i = stage[r] + 1
                   /\ pc[r] = "done"
                   /\ result[r].kind \in Failures
                   /\ result[r].value = ""

\* the first stage of a longer pipeline failed and the call is over
C10_Witness ==
    \E r \in AllCalls :
        /\ pc[r] = "done"
        /\ result[r].kind = "CalledProcessError"
        /\ Len(pipeline[r]) >= 2
        /\ Len(invoked[r]) = 1

\* The least number of stages that lead from T to x (0 for T itself).
Dist(T, x) ==
    CHOOSE k \in 0..Cardinality(TypesOf(CONVERTERS_ALL)) :
        /\ x \in Layer(T, k)
        /\ \A j \in 0..(k - 1) : x \notin Layer(T, j)

\* C14: the traversal takes the types off the queue in the order in which
\* they were added (the one taken is the oldest on the queue), and so no
\* type is expanded after a type that is farther from input_type.
C14_FifoTraversal ==
    [][\A r \in AllCalls :
          (pc[r] = "bfs" /\ pc'[r] = "for")
              => /\ v'[r] = Head(queue[r])
                 /\ v[r] # ""
                      => Dist(input_type[r], v[r]) <= Dist(input_type[r], v'[r])]_vars

\* No item of the sequence occurs in it twice.
NoRepeat(s) == \A i, j \in DOMAIN s : s[i] = s[j] => i = j

\* C15: a predecessor entry, once recorded for a type, is never changed or
\* removed by a later step of the call, and no type is put on the queue
\* more than once.
C15_FirstReachedWins ==
    [][\A r \in AllCalls :
          /\ \A u \in DOMAIN reverse[r] :
                u \in DOMAIN reverse'[r] /\ reverse'[r][u] = reverse[r][u]
          /\ NoRepeat(enqueued'[r])]_vars

\* The place of a class in the list of known converters.
DeclaredAt(c) == CHOOSE i \in DOMAIN CONVERTERS_ALL : CONVERTERS_ALL[i].name = c

\* The available converters that accept p and produce u.
Producers(p, u) ==
    {d \in Range(CONVERTERS) : Accepts(d, p) /\ Class(d).output_type = u}

\* C16: the list being iterated for the expanded type is in declaration
\* order, and the converter recorded for a type u with predecessor p is
\* the earliest declared of the available converters from p to u.
C16_TieBreakByDeclaration ==
    \A r \in AllCalls :
        /\ \A i, j \in DOMAIN conv_iter[r] :
              i < j => DeclaredAt(conv_iter[r][i]) < DeclaredAt(conv_iter[r][j])
        /\ \A u \in DOMAIN reverse[r] :
              \A d \in Producers(reverse[r][u][1], u) :
                  DeclaredAt(reverse[r][u][2]) <= DeclaredAt(d)

\* a type recorded from a predecessor that two available converters lead from,
\* in a pipeline that uses the recorded one
C16_Witness ==
    \E r \in AllCalls :
        /\ pc[r] = "exec"
        /\ \E u \in DOMAIN reverse[r] :
              /\ Cardinality(Producers(reverse[r][u][1], u)) >= 2
              /\ reverse[r][u][2] \in Range(pipeline[r])

\* The accepted types that the predecessor map of call r holds.
Hits(r) == Intersection(out_types[r], reverse[r])

\* C17: once the predecessor map holds an accepted type the traversal is
\* over: the call is past bfs(), no step changes the map, the queue or the
\* list of enqueued types, and the map holds exactly one accepted type.
C17_StopsAtFirstAccepted ==
    [][\A r \in AllCalls :
          (Resolving(r) /\ Hits(r) # {})
              => /\ pc[r] \notin {"bfs", "for"}
                 /\ Cardinality(Hits(r)) = 1
                 /\ reverse'[r] = reverse[r]
                 /\ queue'[r] = queue[r]
                 /\ enqueued'[r] = enqueued[r]]_vars

\* a traversal that stopped with types left to expand and a second accepted
\* type, reachable from input_type, that was never recorded
C17_Witness ==
    \E r \in AllCalls :
        /\ pc[r] = "walk"
        /\ Hits(r) # {}
        /\ Len(queue[r]) >= 2
        /\ \E s \in out_types[r] :
              s \notin DOMAIN reverse[r] /\ ChainExists(input_type[r], {s})

\* C18: every call of get_converter_chain ends: the traversal and the walk
\* back over the predecessor links lead to a returned pipeline (the walk has
\* reached input_type) or to NoConverterAvailableError.
C18_ResolutionTerminates ==
    \A r \in AllCalls :
        (pc[r] \in {"bfs", "for", "intersect", "walk"})
            ~> \/ pc[r] = "exec"
               \/ pc[r] = "done" /\ result[r] = Raised("NoConverterAvailableError")

\* a pipeline returned although a chain led back to input_type, which was
\* recorded in the predecessor map and expanded a second time
C18_Witness ==
    \E r \in AllCalls :
        /\ pc[r] = "exec"
        /\ Len(pipeline[r]) >= 1
        /\ input_type[r] \in DOMAIN reverse[r]
        /\ Len(SelectSeq(enqueued[r], LAMBDA t : t = input_type[r])) = 2

\* The content-types a pipeline passes through, from input_type on.
PassedTypes(r) ==
    <<input_type[r]>> \o [i \in 1..Len(pipeline[r]) |-> Class(pipeline[r][i]).output_type]

\* C19: a pipeline, while the walk builds it and once it is returned, holds
\* no converter twice and is no longer than the list of available converters,
\* and a returned pipeline passes through no content-type twice.
C19_PipelineNoRepeats ==
    \A r \in AllCalls :
        /\ (Resolving(r) /\ pc[r] = "walk") \/ Resolved(r)
              => /\ NoRepeat(pipeline[r])
                 /\ Len(pipeline[r]) <= Len(CONVERTERS)
        /\ Resolved(r) => NoRepeat(PassedTypes(r))

\* a returned pipeline of two or more stages in a graph where a chain leads
\* back to input_type and a converter produces one of its own input types
C19_Witness ==
    \E r \in AllCalls :
        /\ Resolved(r)
        /\ Len(pipeline[r]) >= 2
        /\ input_type[r] \in DOMAIN reverse[r]
        /\ \E c \in Range(CONVERTERS) :
              /\ Accepts(c, Class(c).output_type)
              /\ \E i \in DOMAIN PassedTypes(r) : Accepts(c, PassedTypes(r)[i])

\* C12: every tool invocation of a call is an argument list that starts
\* with the sandbox wrapper and the work_dir the caller supplied, the tool
\* and its arguments coming after them.
C12_AlwaysSandboxed ==
    \A r \in AllCalls :
        \A i \in DOMAIN invoked[r] :
            LET call == invoked[r][i]
            IN  /\ call.work_dir = work_dir[r]
                /\ Len(call.argv) > 2
                /\ call.argv[1] = SANDBOX_PATH
                /\ call.argv[2] = work_dir[r]
                /\ SubSeq(call.argv, 3, Len(call.argv))
                     = Command(call.conv, call.input, call.output)

\* a finished call whose two stages ran, ImageConverter or DocConverter first
\* and PDFConverter after it
C12_Witness ==
    \E r \in AllCalls :
        /\ pc[r] = "done"
        /\ Len(invoked[r]) = 2
        /\ invoked[r][2].conv = "PDFConverter"
        /\ invoked[r][2].argv[3] = "gs"

\* C13: the stages of a call write to pairwise different paths, no step
\* removes a file, and the output file of every completed stage is on disk
\* with the type that stage produced, also once the call has ended.
C13_OutputsKept ==
    [][/\ DOMAIN fs \subseteq DOMAIN fs'
       /\ \A r \in AllCalls :
             \A i \in DOMAIN invoked'[r] :
                 /\ \A j \in DOMAIN invoked'[r] :
                       invoked'[r][i].output = invoked'[r][j].output => i = j
                 /\ invoked'[r][i].ok
                       => /\ invoked'[r][i].output \in DOMAIN fs'
                          /\ fs'[invoked'[r][i].output]
                               = Class(invoked'[r][i].conv).output_type]_vars

\* a call ended by the failure of its second stage, the first one completed
C13_Witness ==
    \E r \in AllCalls :
        /\ pc[r] = "done"
        /\ Len(invoked[r]) = 2
        /\ invoked[r][1].ok
        /\ ~invoked[r][2].ok
        /\ invoked[r][2].output \in DOMAIN fs
        /\ result[r] = Raised("CalledProcessError")

\* get_converter_chain as a function of its arguments: bfs() with its for
\* loop, then the reconstruction walk.
RECURSIVE SoloBfs(_, _, _)
RECURSIVE SoloFor(_, _, _, _, _)
SoloBfs(q, rev, S) ==
    IF q = <<>>
      THEN rev
      ELSE SoloFor(Pop(q).item, converters_for_type(Pop(q).item), Pop(q).rest, rev, S)

SoloFor(x, convs, q, rev, S) ==
    IF convs = <<>>
      THEN SoloBfs(q, rev, S)
      ELSE LET conv == Head(convs)
               u == Class(conv).output_type
               new == u \notin DOMAIN rev
               rev2 == IF new THEN (u :> <<x, conv>>) @@ rev ELSE rev
               q2 == IF new THEN Enqueue(q, u) ELSE q
           IN  IF EarlyReturn(u, S) THEN rev2 ELSE SoloFor(x, Tail(convs), q2, rev2, S)

RECURSIVE SoloWalk(_, _, _, _)
SoloWalk(curr, T, rev, p) ==
    IF WalkDone(curr, T, rev)
      THEN p
      ELSE SoloWalk(rev[curr][1], T, rev, AppendLeft(p, rev[curr][2]))

SoloReverse(T, S) == SoloBfs(<<T>>, <<>>, S)

SoloChain(T, S) ==
    SoloWalk(CHOOSE x \in Intersection(S, SoloReverse(T, S)) : TRUE, T, SoloReverse(T, S), <<>>)

\* What the call r gives when it runs alone, the tools behaving as they did
\* in its stages so far: the result of auto_convert once it has ended.
SoloResult(r) ==
    IF input_type[r] \in out_types[r]
      THEN {ShortCircuit(r)}
      ELSE IF Intersection(out_types[r], SoloReverse(input_type[r], out_types[r])) = {}
        THEN {Raised("NoConverterAvailableError")}
        ELSE LET p == SoloChain(input_type[r], out_types[r])
                 n == Len(invoked[r])
             IN  IF n > 0 /\ ~invoked[r][n].ok
                   THEN {Raised("OSError"), Raised("CalledProcessError")}
                   ELSE IF n = 0
                     THEN {Returned(input_file[r])}
                     ELSE {Returned(work_dir[r] \o "/" \o Class(p[n]).out)}

\* The stages the call r has run are the first stages of its solo pipeline,
\* each on the file the one before it wrote.
SoloStages(r) ==
    LET p == SoloChain(input_type[r], out_types[r])
    IN  /\ pipeline[r] = p
        /\ Len(invoked[r]) <= Len(p)
        /\ \A i \in DOMAIN invoked[r] :
              /\ invoked[r][i].conv = p[i]
              /\ invoked[r][i].input
                   = IF i = 1 THEN input_file[r] ELSE invoked[r][i - 1].output
              /\ invoked[r][i].ok \/ i = Len(invoked[r])
        /\ (pc[r] = "done" /\ result[r].kind = "return")
              => Len(invoked[r]) = Len(p)

OutNames == {CONVERTERS_ALL[i].out : i \in DOMAIN CONVERTERS_ALL}

InDir(path, dir) == path \in {dir \o "/" \o n : n \in OutNames}

\* The two requests have distinct work_dirs and neither reads its input
\* from the work_dir of the other.
Apart(r, q) ==
    /\ r # q
    /\ pc[r] # "idle" /\ pc[q] # "idle"
    /\ work_dir[r] # work_dir[q]
    /\ ~InDir(input_file[r], work_dir[q])
    /\ ~InDir(input_file[q], work_dir[r])

Locals(r) ==
    <<pc[r], input_file[r], work_dir[r], out_types[r], input_type[r], queue[r],
      enqueued[r], reverse[r], v[r], conv_iter[r], pipeline[r], file[r], stage[r],
      invoked[r], result[r]>>

\* The files the call r reads or writes: its input and its work_dir.
OwnFiles(r) == {input_file[r]} \cup {work_dir[r] \o "/" \o n : n \in OutNames}

OnDisk(path) == IF path \in DOMAIN fs THEN fs[path] ELSE ""

\* A step of the request q leaves the locals and the files of r as they are.
StepsApart(r, q) ==
    (Apart(r, q)' /\ Locals(q)' # Locals(q))
        => /\ Locals(r)' = Locals(r)
           /\ \A path \in OwnFiles(r)' : OnDisk(path)' = OnDisk(path)

\* No stage of q writes into, or is confined to, the work_dir of r.
WritesApart(r, q) ==
    \A i \in DOMAIN invoked[q] :
        /\ ~InDir(invoked[q][i].output, work_dir[r])
        /\ invoked[q][i].argv[2] # work_dir[r]

\* The request r does what it does alone.
AsAlone(r) ==
    /\ Resolved(r) => SoloStages(r)
    /\ pc[r] = "done" => result[r] \in SoloResult(r)

\* C11: in every interleaving of two requests that are apart, a step of
\* one request leaves the locals and the files of the other as they are, no
\* stage writes or is confined to the work_dir of the other request, the
\* stages a request runs are those of its solo pipeline, and a request ends
\* with the result it ends with when it runs alone.
C11_ConcurrentRequestsApart ==
    /\ [](\A r, q \in AllCalls : Apart(r, q) => WritesApart(r, q) /\ AsAlone(r))
    /\ [][\A r, q \in AllCalls : StepsApart(r, q)]_vars

\* both requests in the middle of a two-stage pipeline at the same time, each
\* in a work_dir of its own and with its first stage done
C11_Witness ==
    /\ Apart("r1", "r2")
    /\ \A r \in AllCalls :
          /\ pc[r] = "exec"
          /\ Len(pipeline[r]) = 2
          /\ stage[r] = 1
          /\ invoked[r][1].ok

====
